---- MODULE Spec2Model ----
(***************************************************************************)
(* Device-request backend (backend/server.py): the request store, the      *)
(* handlers create_request, get_requests, get_request, update_request,     *)
(* delete_request and download_pdf, the asset-tag validator of             *)
(* RequestUpdate, the webhook call send_to_topdesk and the PDF renderer.   *)
(*                                                                         *)
(* Every handler is an `async def` that calls the blocking pymongo driver  *)
(* and never awaits, and the process is started as a single uvicorn        *)
(* worker (server.py:678-680): a handler runs from its first line to its   *)
(* return without interleaving, so each handler is one action (Spec,       *)
(* SpecUpdates).  SpecConc splits update_request into its store operations *)
(* and interleaves two of them, as several server processes would.         *)
(*                                                                         *)
(* Strings that the code inspects character by character (asset tags,      *)
(* serial numbers) are sequences of one-character strings.  An optional    *)
(* value (Python None, or a key absent from a Mongo document) is None,     *)
(* a present value x is Some(x).  A JSON object / Python dict is a         *)
(* sequence of <<key, value>> pairs with distinct keys, in insertion       *)
(* order.                                                                  *)
(***************************************************************************)
EXTENDS Integers, Sequences, FiniteSets, TLC

VARIABLES
    requests,   \* requests_collection: request id -> document
    users,      \* users_collection: user id -> document
    now,        \* datetime.utcnow(), in handler-sized ticks
    nextId,     \* the number of uuid4 values drawn so far, plus one
    last,       \* the call in flight at the client: its input and response
    probe,      \* the tag string handed to the validator (SpecTags only)
    topdesk_url, \* TOPDESK_WEBHOOK_URL, read from the environment at import
    outbound,   \* the number of requests.post calls made to the webhook
    calls,      \* the handlers running side by side (SpecConc only)
    commits     \* the processes in the order of their update_one and
                \* delete_one calls (SpecConc)

vars == <<requests, users, now, nextId, last, probe, topdesk_url, outbound,
          calls, commits>>

----------------------------------------------------------------------------
(* Bounds *)

\* The number of timestamped writes (create, successful update) in a run.
MaxClock == 2

\* The longest tag string handed to the validator in SpecTags.
MaxTagLen == 7

----------------------------------------------------------------------------
(* Optional values and dicts *)

None == <<>>

Some(x) == <<x>>

IsSome(o) == Len(o) = 1

Val(o) == o[1]

\* dict.keys()
Keys(m) == {m[i][1] : i \in 1..Len(m)}

\* dict.get(k): None when the key is absent
DictGet(m, k) ==
    IF \E i \in 1..Len(m) : m[i][1] = k
    THEN Some(m[CHOOSE i \in 1..Len(m) : m[i][1] = k][2])
    ELSE None

\* Python truthiness of an Optional[dict]: None and the empty dict are falsy.
TruthyDict(o) == IsSome(o) /\ Len(Val(o)) > 0

\* Python truthiness of an Optional[str]: None and "" are falsy.
TruthyStr(o) == IsSome(o) /\ Val(o) # ""

----------------------------------------------------------------------------
(* Characters *)

Newline == "\n"

\* A decimal digit outside ASCII (U+0663 ARABIC-INDIC DIGIT THREE).
ArabicThree == "U+0663"

AsciiDigits == {"0", "1", "2", "3", "4", "5", "6", "7", "8", "9"}

\* str.strip() with no argument strips whitespace.
Whitespace == {" ", "\t", Newline}

\* re: in a str pattern \d matches every Unicode decimal digit.
IsDigit(c) == c \in AsciiDigits \cup {ArabicThree}

----------------------------------------------------------------------------
(* RequestUpdate.validate_asset_tags *)

\* re.compile(r'^H\d{5}$').match(tag): without re.MULTILINE, $ matches at the
\* end of the string and also just before a newline that ends the string.
PatternMatch(tag) ==
    /\ Len(tag) \in {6, 7}
    /\ tag[1] = "H"
    /\ \A i \in 2..6 : IsDigit(tag[i])
    /\ Len(tag) = 7 => tag[7] = Newline

\* `if tag and not pattern.match(tag)`: the positions of the dict whose tag is
\* non-empty and does not match.
OffendingTags(m) == {i \in 1..Len(m) : m[i][2] # <<>> /\ ~PatternMatch(m[i][2])}

\* The validator: passes None through, raises ValueError naming the first
\* offending device in the dict's order, else returns the dict.
ValidateAssetTags(v) ==
    IF v = None
    THEN [ok |-> TRUE, device |-> ""]
    ELSE LET bad == OffendingTags(Val(v)) IN
         IF bad = {}
         THEN [ok |-> TRUE, device |-> ""]
         ELSE [ok |-> FALSE,
               device |-> Val(v)[CHOOSE i \in bad : \A j \in bad : i <= j][1]]

----------------------------------------------------------------------------
(* update_request: the serial-number check *)

RECURSIVE LStrip(_)
LStrip(s) == IF s # <<>> /\ Head(s) \in Whitespace THEN LStrip(Tail(s)) ELSE s

RECURSIVE RStrip(_)
RStrip(s) ==
    IF s # <<>> /\ s[Len(s)] \in Whitespace
    THEN RStrip(SubSeq(s, 1, Len(s) - 1))
    ELSE s

\* str.strip()
Strip(s) == RStrip(LStrip(s))

\* `not serial or not serial.strip()` for serial = dict.get(device)
BlankSerial(o) == o = None \/ Val(o) = <<>> \/ Strip(Val(o)) = <<>>

\* A serial check that asks a serial of the apple_pencil too.
SerialKindsWithPencil == {"ipad", "macbook", "apple_pencil"}

\* `device in ['ipad', 'macbook']`
SerialKinds == {"ipad", "macbook"}

\* A serial check that also runs for "termine".
SerialStatusesWithTermine == {"approuve", "prepare", "termine"}

\* `update_data.status in ['approuve', 'prepare']`
SerialStatuses == {"approuve", "prepare"}

\* A loop that accepts a serial already stored on the request when the body
\* has none for the device.
MissingSerialsUnlessStored(request, upd) ==
    {i \in 1..Len(request.devices) :
        /\ request.devices[i] \in SerialKinds
        /\ BlankSerial(DictGet(Val(upd.device_serial_numbers), request.devices[i]))
        /\ \/ request.device_serial_numbers = None
           \/ BlankSerial(DictGet(Val(request.device_serial_numbers),
                                  request.devices[i]))}

\* The positions of request['devices'] at which the loop raises.
MissingSerials(request, upd) ==
    {i \in 1..Len(request.devices) :
        /\ request.devices[i] \in SerialKinds
        /\ BlankSerial(DictGet(Val(upd.device_serial_numbers), request.devices[i]))}

\* Lines 553-562: the check runs only for a target status of SerialStatuses and
\* a truthy device_serial_numbers; it raises 400 for the first requested device
\* whose serial is blank.
SerialCheck(request, upd) ==
    IF upd.status \in SerialStatuses /\ TruthyDict(upd.device_serial_numbers)
    THEN LET bad == MissingSerials(request, upd) IN
         IF bad = {}
         THEN [ok |-> TRUE, device |-> ""]
         ELSE [ok |-> FALSE,
               device |-> request.devices[CHOOSE i \in bad : \A j \in bad : i <= j]]
    ELSE [ok |-> TRUE, device |-> ""]

----------------------------------------------------------------------------
(* Identities *)

UserIds == {"u1", "u2", "a1"}

\* The users collection the process starts with (only the fields the handlers
\* below read; the optional profile keys are absent).
RegisteredUsers ==
    [u \in UserIds |->
        [email |-> u, first_name |-> "fn", last_name |-> "ln",
         role |-> IF u = "a1" THEN "admin" ELSE "user"]]

\* create_token / verify_token: the token payload of a registered user.
TokenOf(u) == [user_id |-> u, role |-> users[u].role]

Callers == {TokenOf(u) : u \in DOMAIN users}

\* The caller of a route that takes no token (register, login).
NoToken == [user_id |-> "", role |-> ""]

\* A dependency that only checks that the token carries a role.
RequireAnyRole(token_data) == token_data.role \in {"admin", "user"}

\* require_admin: raises 403 unless role is "admin".
RequireAdmin(token_data) == token_data.role = "admin"

\* get_request / download_pdf: the permission check (the negation of the
\* condition that raises 403).
CanView(token_data, request) ==
    token_data.role = "admin" \/ request.user_id = token_data.user_id

\* users_collection.find_one({"_id": id})
FindUser(id) == IF id \in DOMAIN users THEN Some(users[id]) ELSE None

\* The user_info view get_request and get_requests attach when the submitter
\* is found.
UserInfo(id) ==
    IF id \in DOMAIN users
    THEN Some([email |-> users[id].email, first_name |-> users[id].first_name,
               last_name |-> users[id].last_name, role |-> users[id].role])
    ELSE None

----------------------------------------------------------------------------
(* send_to_topdesk *)

\* os.environ.get('TOPDESK_WEBHOOK_URL', ''): unset, or the endpoint.
WebhookUrls == {"", "https://topdesk.example/webhook"}

\* What requests.post(..., timeout=10) does: it returns a response (post does
\* not raise for a status that is not 2xx), or raises ConnectionError, or
\* raises Timeout.
PostOutcomes == {"2xx", "non2xx", "transport_error", "timeout"}

\* send_to_topdesk without its try/except.
SendToTopdeskUncaught(url, outcome) ==
    IF url = ""
    THEN [posts |-> 0, raised |-> FALSE, dispatch |-> "none"]
    ELSE [posts |-> 1, raised |-> outcome \in {"transport_error", "timeout"},
          dispatch |-> outcome]

\* send_to_topdesk that posts a second time when the first post failed.
SendToTopdeskRetry(url, outcome) ==
    IF url = ""
    THEN [posts |-> 0, raised |-> FALSE, dispatch |-> "none"]
    ELSE [posts |-> IF outcome = "2xx" THEN 1 ELSE 2, raised |-> FALSE,
          dispatch |-> outcome]

\* send_to_topdesk: returns at once when the URL is falsy; otherwise builds the
\* payload and posts once, and `except Exception` swallows whatever is raised.
\* posts: the number of requests.post calls; raised: whether an exception
\* leaves the function.
SendToTopdesk(url, outcome) ==
    IF url = ""
    THEN [posts |-> 0, raised |-> FALSE, dispatch |-> "none"]
    ELSE [posts |-> 1, raised |-> FALSE, dispatch |-> outcome]

----------------------------------------------------------------------------
(* generate_official_ebs_pdf *)

\* The import with cm added.
ImportedUnitsWithCm == {"inch", "mm", "cm"}

\* `from reportlab.lib.units import inch, mm`: the unit names bound in the
\* module's namespace.
ImportedUnits == {"inch", "mm"}

\* The unit names the renderer evaluates (margins in mm, column widths in cm).
UsedUnits == {"mm", "cm"}

\* device_mapping.get(device, device)
DeviceLabel(d) ==
    CASE d = "ipad" -> "iPad avec clavier ergonomique"
      [] d = "macbook" -> "MacBook"
      [] d = "apple_pencil" -> "Apple Pencil"
      [] OTHER -> d

\* dict.get(key, default): the default is returned only when the key is
\* absent; a key that is present with the value None yields None.
GetOr(d, key, default) == IF key \in DOMAIN d THEN d[key] ELSE default

\* The renderer: evaluating a name that is not bound raises NameError at the
\* first Table(...) (line 214); otherwise the story is built from the request
\* and the submitter. The cells that come from an optional field are optional
\* values (None: the cell holds Python None).
GenerateOfficialEbsPdf(request_data, user_data) ==
    IF UsedUnits \subseteq ImportedUnits
    THEN [raised |-> FALSE,
          story |-> Some([demandeur |-> <<user_data.first_name, user_data.last_name>>,
                          fonction |->
                              GetOr(user_data, "fonction",
                                    Some("Gestionnaire administratif")),
                          adresse |->
                              GetOr(user_data, "adresse_complete",
                                    Some("5, rue Thomas Edison - L-1445 Strassen")),
                          telephone |->
                              GetOr(user_data, "telephone", Some("(+352) 247-65868")),
                          email |-> user_data.email,
                          personne_reference |->
                              GetOr(request_data.beneficiaire, "personne_reference",
                                    Some("")),
                          materiel |-> [i \in 1..Len(request_data.devices) |->
                                           DeviceLabel(request_data.devices[i])],
                          quantite |-> [i \in 1..Len(request_data.devices) |-> "1"],
                          lieu_reception |->
                              GetOr(request_data, "lieu_reception",
                                    Some("Centre Technolink")),
                          duree_fin_disposition |->
                              GetOr(request_data, "duree_fin_disposition",
                                    Some("Fin d'annee scolaire"))])]
    ELSE [raised |-> TRUE, story |-> None]

----------------------------------------------------------------------------
(* Request documents *)

\* create_request: request_doc (a key that create does not write is None).
NewRequestDoc(token_data, request_data, t) ==
    [user_id |-> token_data.user_id,
     devices |-> request_data.devices,
     application_requirements |-> request_data.application_requirements,
     beneficiaire |-> request_data.beneficiaire,
     lieu_reception |-> request_data.lieu_reception,
     duree_fin_disposition |-> request_data.duree_fin_disposition,
     phone |-> request_data.phone,
     address |-> request_data.address,
     status |-> "en_attente",
     created_at |-> t,
     updated_at |-> t,
     device_serial_numbers |-> None,
     device_asset_tags |-> None,
     admin_notes |-> None,
     official_pdf_path |-> None,
     official_pdf_generated |-> None]

\* A generator that returns an id it has returned before.
NewIdStale == IF nextId > 1 THEN 1 ELSE nextId

\* uuid.uuid4(): a value no earlier call returned.
NewId == nextId

\* update_request: update_fields (None: the key is not in the $set).
UpdateFields(upd, t) ==
    [status |-> upd.status,
     updated_at |-> t,
     device_serial_numbers |->
        IF TruthyDict(upd.device_serial_numbers) THEN upd.device_serial_numbers ELSE None,
     device_asset_tags |->
        IF TruthyDict(upd.device_asset_tags) THEN upd.device_asset_tags ELSE None,
     admin_notes |->
        IF TruthyStr(upd.admin_notes) THEN upd.admin_notes ELSE None]

\* An update that writes every key of RequestUpdate, given or not.
ApplySetReplace(doc, f) ==
    [doc EXCEPT
        !.status = f.status,
        !.updated_at = f.updated_at,
        !.device_serial_numbers = f.device_serial_numbers,
        !.device_asset_tags = f.device_asset_tags,
        !.admin_notes = f.admin_notes]

\* The dict old updated with the entries of the dict new (dict.update).
MergeDict(old, new) ==
    IF new = None THEN old
    ELSE IF old = None THEN new
    ELSE LET Kept(p) == p[1] \notin Keys(Val(new))
         IN  Some(SelectSeq(Val(old), Kept) \o Val(new))

\* An update that merges a supplied map into the stored one, key by key.
ApplySetMerge(doc, f) ==
    [doc EXCEPT
        !.status = f.status,
        !.updated_at = f.updated_at,
        !.device_serial_numbers = MergeDict(@, f.device_serial_numbers),
        !.device_asset_tags = MergeDict(@, f.device_asset_tags),
        !.admin_notes = IF f.admin_notes = None THEN @ ELSE f.admin_notes]

\* update_one({"_id": id}, {"$set": fields}) on the matched document.
ApplySet(doc, f) ==
    [doc EXCEPT
        !.status = f.status,
        !.updated_at = f.updated_at,
        !.device_serial_numbers =
            IF f.device_serial_numbers = None THEN @ ELSE f.device_serial_numbers,
        !.device_asset_tags =
            IF f.device_asset_tags = None THEN @ ELSE f.device_asset_tags,
        !.admin_notes = IF f.admin_notes = None THEN @ ELSE f.admin_notes]

\* pdf_path = f"/tmp/EBS_demande_{request_id}_{date}.pdf"
PdfPath(rid, t) == <<"/tmp/EBS_demande", rid, t>>

\* The second update_one: {"$set": {official_pdf_path, official_pdf_generated}}.
ApplyPdfMarker(doc, path) ==
    [doc EXCEPT !.official_pdf_path = Some(path),
                !.official_pdf_generated = Some(TRUE)]

\* Lines 584-607: what the try block does after the first write. "skipped":
\* the status is not "prepare"; "no_user": the submitter is not found;
\* "raised": the renderer or the file write raised (caught at line 606);
\* "stored": the marker was written.
PdfOutcome(upd, doc, fsOk) ==
    IF upd.status # "prepare" THEN "skipped"
    ELSE IF FindUser(doc.user_id) = None THEN "no_user"
    ELSE IF GenerateOfficialEbsPdf(doc, Val(FindUser(doc.user_id))).raised THEN "raised"
    ELSE IF ~fsOk THEN "raised"
    ELSE "stored"

\* update_request without the try/except around the PDF step.
UpdateStatusCodeUncaught(outcome) == IF outcome = "raised" THEN 500 ELSE 200

\* The status update_request answers once the first write is done: the except
\* clause swallows every exception of the PDF step (line 609).
UpdateStatusCode(outcome) == 200

----------------------------------------------------------------------------
(* Inputs *)

\* DeviceRequest.devices (any List[str]): the list of backend_test.py:143, and
\* a list with no device that needs a serial, one of them a kind the code names
\* nowhere.
DeviceLists == {<<"ipad", "macbook", "apple_pencil">>, <<"apple_pencil", "etui">>}

\* BeneficiaireInfo, as the create test fills it in (backend_test.py:149-157).
BeneficiaireOfTest ==
    [nom |-> "Dupont", prenom |-> "Jean", date_naissance |-> "2010-05-15",
     ecole |-> "Ecole Fondamentale de Luxembourg", classe |-> "6e annee",
     qualite_ebs |-> "EBS", personne_reference |-> Some("Marie Dupont")]

\* The bodies of POST /api/requests: the body of the create test, and a body
\* with the other device list that leaves out every optional field (pydantic
\* fills each in as None).
DeviceRequests ==
    {[devices |-> <<"ipad", "macbook", "apple_pencil">>,
      application_requirements |-> "notes et dessin",
      beneficiaire |-> BeneficiaireOfTest,
      lieu_reception |-> Some("Centre Technolink"),
      duree_fin_disposition |-> Some("Fin d'annee scolaire"),
      phone |-> Some("+33987654321"),
      address |-> Some("123 Rue de l'Ecole, Luxembourg")],
     [devices |-> <<"apple_pencil", "etui">>,
      application_requirements |-> "notes et dessin",
      beneficiaire |-> [BeneficiaireOfTest EXCEPT !.personne_reference = None],
      lieu_reception |-> None,
      duree_fin_disposition |-> None,
      phone |-> None,
      address |-> None]}

\* RequestUpdate.status is any str: the statuses the dashboard counts, and a
\* value the code names nowhere.
Statuses == {"en_attente", "approuve", "prepare", "termine", "refuse"}

SerialIpad == <<"S", "N", "1">>

SerialMac == <<"S", "N", "2">>

\* The serial dicts of the tests (backend_test.py:206, 274).
SerialsComplete ==
    Some(<< <<"ipad", SerialIpad>>, <<"macbook", SerialMac>>,
            <<"apple_pencil", <<>> >> >>)

SerialsIpadEmpty ==
    Some(<< <<"ipad", <<>> >>, <<"macbook", SerialMac>>,
            <<"apple_pencil", <<>> >> >>)

\* A serial dict whose apple_pencil entry is whitespace only.
SerialsPencilBlank ==
    Some(<< <<"ipad", SerialIpad>>, <<"macbook", SerialMac>>,
            <<"apple_pencil", <<" ">> >> >>)

\* RequestUpdate.device_serial_numbers: omitted, empty, the dicts of the tests,
\* a dict whose only blank serial is a whitespace-only one (it has no
\* apple_pencil key), and a dict whose apple_pencil serial is whitespace only.
SerialInputs ==
    {None,
     Some(<<>>),
     SerialsComplete,
     SerialsIpadEmpty,
     Some(<< <<"ipad", <<" ">> >>, <<"macbook", SerialMac>> >>),
     SerialsPencilBlank}

TagH12345 == <<"H", "1", "2", "3", "4", "5">>

TagH67890 == <<"H", "6", "7", "8", "9", "0">>

TagABC123 == <<"A", "B", "C", "1", "2", "3">>

\* The tag dict of the prepare test (backend_test.py:542).
TagsOfTest ==
    Some(<< <<"ipad", TagH12345>>, <<"macbook", TagH67890>>,
            <<"apple_pencil", <<>> >> >>)

\* The tag dict of the invalid-tag test (backend_test.py:237).
TagsInvalid ==
    Some(<< <<"ipad", TagABC123>>, <<"apple_pencil", TagH67890>> >>)

\* RequestUpdate.device_asset_tags: omitted, empty, the dicts of the tests
\* (backend_test.py:542, 237), and a tag that ends in a newline.
TagInputs ==
    {None,
     Some(<<>>),
     TagsOfTest,
     TagsInvalid,
     Some(<< <<"ipad", TagH12345 \o <<Newline>> >> >>)}

\* RequestUpdate.admin_notes
NoteInputs == {None, Some(""), Some("note")}

\* The bodies of PUT /api/requests/{id}.
UpdateInputs ==
    [status : Statuses, device_serial_numbers : SerialInputs,
     device_asset_tags : TagInputs, admin_notes : NoteInputs]

\* The request ids a caller can name: every id issued so far, and one that was
\* never issued.
UnknownId == 0

RequestIds == (1..(nextId - 1)) \cup {UnknownId}

\* The characters of the tag strings of SpecTags.
TagAlphabet == {"H", "1", "A", Newline, ArabicThree}

RECURSIVE SeqsUpTo(_, _)
SeqsUpTo(S, n) ==
    IF n = 0 THEN {<<>>}
    ELSE LET shorter == SeqsUpTo(S, n - 1) IN
         shorter \cup {Append(t, c) : t \in {u \in shorter : Len(u) = n - 1}, c \in S}

TagStrings(n) == SeqsUpTo(TagAlphabet, n)

----------------------------------------------------------------------------
(* State *)

\* No call in flight.
Idle == [op |-> "idle"]

Init ==
    /\ requests = <<>>
    /\ users = RegisteredUsers
    /\ now = 1
    /\ nextId = 1
    /\ last = Idle
    /\ probe = <<>>
    /\ topdesk_url \in WebhookUrls
    /\ outbound = 0
    /\ calls = <<>>
    /\ commits = <<>>

\* requests_collection with document id -> doc inserted.
Insert(id, doc) ==
    [r \in DOMAIN requests \cup {id} |-> IF r = id THEN doc ELSE requests[r]]

\* requests_collection without document id.
Remove(id) == [r \in DOMAIN requests \ {id} |-> requests[r]]

----------------------------------------------------------------------------
(* Handlers *)

\* POST /api/requests. insert_one comes before send_to_topdesk: an exception
\* that left send_to_topdesk would answer 500 with the document stored.
CreateRequest(token_data, request_data) ==
    /\ last = Idle
    /\ now <= MaxClock
    /\ IF FindUser(token_data.user_id) = None
       THEN /\ last' = [op |-> "create", caller |-> token_data,
                        devices |-> request_data.devices,
                        code |-> 404, request_id |-> None, dispatch |-> "none"]
            /\ UNCHANGED <<requests, now, nextId, outbound>>
       ELSE \E outcome \in PostOutcomes :
            LET sent == SendToTopdesk(topdesk_url, outcome) IN
            /\ requests' = Insert(NewId, NewRequestDoc(token_data, request_data, now))
            /\ nextId' = nextId + 1
            /\ now' = now + 1
            /\ outbound' = outbound + sent.posts
            /\ last' = [op |-> "create", caller |-> token_data,
                        devices |-> request_data.devices,
                        code |-> IF sent.raised THEN 500 ELSE 200,
                        request_id |-> IF sent.raised THEN None ELSE Some(NewId),
                        dispatch |-> sent.dispatch]
    /\ UNCHANGED <<users, probe, topdesk_url, calls, commits>>

\* The attributes a UserCreate object has (server.py:52-62).
UserCreateFields ==
    {"email", "password", "first_name", "last_name", "role", "adresse_complete",
     "telephone"}

\* The attributes of user_data that register reads to build user_doc.
UserDocReads ==
    {"email", "password", "first_name", "last_name", "role", "fonction",
     "adresse_complete", "telephone"}

\* The bodies of POST /api/register: the email of a stored user or a new one,
\* with and without the optional profile fields.
UserCreates ==
    [email : {"u1", "n1"}, first_name : {"fn"}, last_name : {"ln"}, role : {"user"},
     adresse_complete : {None, Some("1, rue de l'Ecole")},
     telephone : {None, Some("+352 000")}]

\* POST /api/register: 400 for an email that is stored; otherwise user_doc is
\* built, which raises AttributeError when it reads an attribute UserCreate
\* does not have (500, before insert_one); otherwise the document is stored
\* (the new id is modelled by the email).
Register(user_data) ==
    /\ last = Idle
    /\ IF \E u \in DOMAIN users : users[u].email = user_data.email
       THEN /\ last' = [op |-> "register", caller |-> NoToken,
                        in |-> user_data, code |-> 400]
            /\ UNCHANGED users
       ELSE IF ~(UserDocReads \subseteq UserCreateFields)
       THEN /\ last' = [op |-> "register", caller |-> NoToken,
                        in |-> user_data, code |-> 500]
            /\ UNCHANGED users
       ELSE /\ last' = [op |-> "register", caller |-> NoToken,
                        in |-> user_data, code |-> 200]
            /\ users' =
                  [u \in DOMAIN users \cup {user_data.email} |->
                      IF u = user_data.email
                      THEN [email |-> user_data.email,
                            first_name |-> user_data.first_name,
                            last_name |-> user_data.last_name,
                            role |-> user_data.role,
                            fonction |-> None,
                            adresse_complete |-> user_data.adresse_complete,
                            telephone |-> user_data.telephone]
                      ELSE users[u]]
    /\ UNCHANGED <<requests, now, nextId, probe, topdesk_url, outbound, calls, commits>>

\* get_requests without the user_id filter.
ListBodyUnfiltered(token_data) ==
    {[id |-> r, doc |-> requests[r],
      user_info |-> IF token_data.role = "admin" THEN UserInfo(requests[r].user_id)
                    ELSE None] : r \in DOMAIN requests}

\* get_requests: the documents returned. An admin gets every document, each
\* with the user_info of its submitter when find_one finds it; any other
\* caller gets the documents find({"user_id": ...}) matches, without user_info.
ListBody(token_data) ==
    IF token_data.role = "admin"
    THEN {[id |-> r, doc |-> requests[r], user_info |-> UserInfo(requests[r].user_id)] :
             r \in DOMAIN requests}
    ELSE {[id |-> r, doc |-> requests[r], user_info |-> None] :
             r \in {q \in DOMAIN requests : requests[q].user_id = token_data.user_id}}

\* GET /api/requests
GetRequests(token_data) ==
    /\ last = Idle
    /\ last' = [op |-> "list", caller |-> token_data, code |-> 200,
                body |-> ListBody(token_data)]
    /\ UNCHANGED <<requests, users, now, nextId, probe, topdesk_url, outbound, calls, commits>>

\* get_request: the status it answers (404 before 403).
GetCode(token_data, rid) ==
    IF rid \notin DOMAIN requests THEN 404
    ELSE IF ~CanView(token_data, requests[rid]) THEN 403
    ELSE 200

\* get_request: the document it returns, with the submitter's user_info when
\* find_one finds the submitter.
GetBody(token_data, rid) ==
    IF GetCode(token_data, rid) = 200
    THEN Some([doc |-> requests[rid], user_info |-> UserInfo(requests[rid].user_id)])
    ELSE None

\* A get that also stamps the document it returns.
GetRequestTouching(token_data, rid) ==
    /\ last = Idle
    /\ last' = [op |-> "get", caller |-> token_data, rid |-> rid,
                code |-> GetCode(token_data, rid), body |-> GetBody(token_data, rid)]
    /\ requests' = IF GetCode(token_data, rid) = 200
                   THEN [requests EXCEPT ![rid].updated_at = now]
                   ELSE requests
    /\ UNCHANGED <<users, now, nextId, probe, topdesk_url, outbound, calls, commits>>

\* GET /api/requests/{request_id}
GetRequest(token_data, rid) ==
    /\ last = Idle
    /\ last' = [op |-> "get", caller |-> token_data, rid |-> rid,
                code |-> GetCode(token_data, rid), body |-> GetBody(token_data, rid)]
    /\ UNCHANGED <<requests, users, now, nextId, probe, topdesk_url, outbound, calls, commits>>

\* update_request with the serial check moved after the first update_one.
UpdateBodyWriteFirst(token_data, rid, upd) ==
    IF ~ValidateAssetTags(upd.device_asset_tags).ok
    THEN /\ last' = [op |-> "update", caller |-> token_data, rid |-> rid,
                     in |-> Some(upd), code |-> 422,
                     device |-> ValidateAssetTags(upd.device_asset_tags).device,
                     pdf |-> "skipped"]
         /\ UNCHANGED <<requests, now>>
    ELSE IF rid \notin DOMAIN requests
    THEN /\ last' = [op |-> "update", caller |-> token_data, rid |-> rid,
                     in |-> Some(upd), code |-> 404, device |-> "", pdf |-> "skipped"]
         /\ UNCHANGED <<requests, now>>
    ELSE /\ requests' = [requests EXCEPT ![rid] = ApplySet(@, UpdateFields(upd, now))]
         /\ now' = now + 1
         /\ last' = [op |-> "update", caller |-> token_data, rid |-> rid,
                     in |-> Some(upd),
                     code |-> IF SerialCheck(requests[rid], upd).ok THEN 200 ELSE 400,
                     device |-> SerialCheck(requests[rid], upd).device,
                     pdf |-> "skipped"]

\* update_request once require_admin has passed: the body is validated against
\* RequestUpdate (422), then the handler runs (404, 400, the writes).
UpdateBody(token_data, rid, upd) ==
    IF ~ValidateAssetTags(upd.device_asset_tags).ok
    THEN /\ last' = [op |-> "update", caller |-> token_data, rid |-> rid,
                     in |-> Some(upd), code |-> 422,
                     device |-> ValidateAssetTags(upd.device_asset_tags).device,
                     pdf |-> "skipped"]
         /\ UNCHANGED <<requests, now>>
    ELSE IF rid \notin DOMAIN requests
    THEN /\ last' = [op |-> "update", caller |-> token_data, rid |-> rid,
                     in |-> Some(upd), code |-> 404, device |-> "", pdf |-> "skipped"]
         /\ UNCHANGED <<requests, now>>
    ELSE IF ~SerialCheck(requests[rid], upd).ok
    THEN /\ last' = [op |-> "update", caller |-> token_data, rid |-> rid,
                     in |-> Some(upd), code |-> 400,
                     device |-> SerialCheck(requests[rid], upd).device,
                     pdf |-> "skipped"]
         /\ UNCHANGED <<requests, now>>
    ELSE \E fsOk \in BOOLEAN :
         LET written == ApplySet(requests[rid], UpdateFields(upd, now))
             outcome == PdfOutcome(upd, written, fsOk)
         IN  /\ requests' =
                   [requests EXCEPT ![rid] =
                       IF outcome = "stored"
                       THEN ApplyPdfMarker(written, PdfPath(rid, now))
                       ELSE written]
             /\ now' = now + 1
             /\ last' = [op |-> "update", caller |-> token_data, rid |-> rid,
                         in |-> Some(upd), code |-> UpdateStatusCode(outcome),
                         device |-> "", pdf |-> outcome]

\* PUT /api/requests/{request_id}. FastAPI resolves the require_admin
\* dependency before it validates the body: a caller who is not an admin gets
\* 403 whatever the body holds. fsOk (in UpdateBody): whether open() and
\* write() of the PDF file succeed.
UpdateRequest(token_data, rid) ==
    /\ last = Idle
    /\ now <= MaxClock
    /\ IF ~RequireAdmin(token_data)
       THEN /\ last' = [op |-> "update", caller |-> token_data, rid |-> rid,
                        in |-> None, code |-> 403, device |-> "", pdf |-> "skipped"]
            /\ UNCHANGED <<requests, now>>
       ELSE \E upd \in UpdateInputs : UpdateBody(token_data, rid, upd)
    /\ UNCHANGED <<users, nextId, probe, topdesk_url, outbound, calls, commits>>

\* A delete_one that reports one removed document whatever the store held.
DeletedCountAcknowledged(rid) == 1

\* delete_one(...).deleted_count: 1 when the store holds the document.
DeletedCount(rid) == IF rid \in DOMAIN requests THEN 1 ELSE 0

\* DELETE /api/requests/{request_id}
DeleteRequest(token_data, rid) ==
    /\ last = Idle
    /\ IF ~RequireAdmin(token_data)
       THEN /\ last' = [op |-> "delete", caller |-> token_data, rid |-> rid, code |-> 403]
            /\ UNCHANGED requests
       ELSE IF rid \notin DOMAIN requests
       THEN /\ last' = [op |-> "delete", caller |-> token_data, rid |-> rid, code |-> 404]
            /\ UNCHANGED requests
       ELSE /\ requests' = Remove(rid)
            /\ last' = [op |-> "delete", caller |-> token_data, rid |-> rid,
                        code |-> IF DeletedCount(rid) = 1 THEN 200 ELSE 500]
    /\ UNCHANGED <<users, now, nextId, probe, topdesk_url, outbound, calls, commits>>

\* The status download_pdf answers: 404 (request or submitter not found), 403,
\* 500 when the renderer raises (nothing catches it), else 200.
DownloadCode(token_data, rid) ==
    IF rid \notin DOMAIN requests THEN 404
    ELSE IF ~CanView(token_data, requests[rid]) THEN 403
    ELSE IF FindUser(requests[rid].user_id) = None THEN 404
    ELSE IF GenerateOfficialEbsPdf(requests[rid],
                                   Val(FindUser(requests[rid].user_id))).raised THEN 500
    ELSE 200

\* GET /api/requests/{request_id}/pdf
DownloadPdf(token_data, rid) ==
    /\ last = Idle
    /\ last' = [op |-> "download", caller |-> token_data, rid |-> rid,
                code |-> DownloadCode(token_data, rid),
                body |-> IF DownloadCode(token_data, rid) = 200
                         THEN GenerateOfficialEbsPdf(
                                  requests[rid],
                                  Val(FindUser(requests[rid].user_id))).story
                         ELSE None]
    /\ UNCHANGED <<requests, users, now, nextId, probe, topdesk_url, outbound, calls, commits>>

\* The client reads the response before it issues its next call
\* (ESEBAPITester.run_test).
Respond ==
    /\ last # Idle
    /\ last' = Idle
    /\ UNCHANGED <<requests, users, now, nextId, probe, topdesk_url, outbound, calls, commits>>

\* A client issues a call when none is in flight, and reads the response.
Next ==
    \/ last = Idle /\ \E c \in Callers, d \in DeviceRequests : CreateRequest(c, d)
    \/ last = Idle /\ \E c \in Callers : GetRequests(c)
    \/ last = Idle /\ \E c \in Callers, r \in RequestIds : GetRequest(c, r)
    \/ last = Idle /\ \E c \in Callers, r \in RequestIds : UpdateRequest(c, r)
    \/ last = Idle /\ \E c \in Callers, r \in RequestIds : DeleteRequest(c, r)
    \/ last = Idle /\ \E c \in Callers, r \in RequestIds : DownloadPdf(c, r)
    \/ last = Idle /\ \E u \in UserCreates : Register(u)
    \/ Respond

Spec == Init /\ [][Next]_vars

----------------------------------------------------------------------------
(* The validator on its own: one tag string for one device *)

InitTags ==
    /\ requests = <<>>
    /\ users = RegisteredUsers
    /\ now = 1
    /\ nextId = 1
    /\ last = Idle
    /\ probe \in TagStrings(MaxTagLen)
    /\ topdesk_url = ""
    /\ outbound = 0
    /\ calls = <<>>
    /\ commits = <<>>

\* RequestUpdate(status=..., device_asset_tags={"ipad": probe})
ValidateProbe ==
    /\ last = Idle
    /\ last' = [op |-> "validate", tag |-> probe,
                accepted |-> ValidateAssetTags(Some(<< <<"ipad", probe>> >>)).ok,
                device |-> ValidateAssetTags(Some(<< <<"ipad", probe>> >>)).device]
    /\ UNCHANGED <<requests, users, now, nextId, probe, topdesk_url, outbound, calls, commits>>

NextTags == ValidateProbe

SpecTags == InitTags /\ [][NextTags]_vars

----------------------------------------------------------------------------
(* Updates of one request: the store once u1 has created a request *)

\* The state after one create_request by u1, made before the clock's first
\* tick; the webhook is not configured.
InitUpdates ==
    /\ \E d \in DeviceRequests :
          requests = <<NewRequestDoc([user_id |-> "u1", role |-> "user"], d, 0)>>
    /\ users = RegisteredUsers
    /\ now = 1
    /\ nextId = 2
    /\ last = Idle
    /\ probe = <<>>
    /\ topdesk_url = ""
    /\ outbound = 0
    /\ calls = <<>>
    /\ commits = <<>>

\* The clients only call update.
NextUpdates ==
    \/ last = Idle /\ \E c \in Callers, r \in RequestIds : UpdateRequest(c, r)
    \/ Respond

SpecUpdates == InitUpdates /\ [][NextUpdates]_vars

----------------------------------------------------------------------------
(* Admin calls side by side: update_request and delete_request in several   *)
(* server processes on one database.  A handler is then a sequence of store *)
(* operations, and the operations of two handlers interleave; each          *)
(* find_one, update_one and delete_one is atomic.                           *)

\* The server processes.
Procs == {1, 2}

\* The request both calls name.
ConcRid == 1

\* The bodies of the concurrent updates.
ConcUpdates ==
    [status : Statuses,
     device_serial_numbers : {None, SerialsComplete, SerialsIpadEmpty},
     device_asset_tags : {None, TagsOfTest},
     admin_notes : NoteInputs]

\* A process that has not received its call.
NoCall == [op |-> "", pc |-> "idle", upd |-> None, request |-> None, code |-> 0]

\* The state after one create_request by u1 (the body of the create test),
\* made before the clock's first tick.
InitConc ==
    /\ requests =
          <<NewRequestDoc([user_id |-> "u1", role |-> "user"],
                          CHOOSE d \in DeviceRequests : Len(d.devices) = 3, 0)>>
    /\ users = RegisteredUsers
    /\ now = 1
    /\ nextId = 2
    /\ last = Idle
    /\ probe = <<>>
    /\ topdesk_url = ""
    /\ outbound = 0
    /\ calls = [p \in Procs |-> NoCall]
    /\ commits = <<>>

\* An admin's PUT /api/requests/{ConcRid} reaches process p: require_admin
\* has passed and the body is validated (422: the handler does not run).
ConcReceive(p, upd) ==
    /\ calls[p].pc = "idle"
    /\ calls' = [calls EXCEPT ![p] =
                    IF ValidateAssetTags(upd.device_asset_tags).ok
                    THEN [op |-> "update", pc |-> "received", upd |-> Some(upd),
                          request |-> None, code |-> 0]
                    ELSE [op |-> "update", pc |-> "done", upd |-> Some(upd),
                          request |-> None, code |-> 422]]
    /\ UNCHANGED <<requests, users, now, nextId, last, probe, topdesk_url, outbound, commits>>

\* Line 549: request = find_one({"_id": request_id}); 404 when it is None.
ConcFind(p) ==
    /\ calls[p].pc = "received"
    /\ calls' = [calls EXCEPT ![p] =
                    IF ConcRid \in DOMAIN requests
                    THEN [@ EXCEPT !.pc = "found", !.request = Some(requests[ConcRid])]
                    ELSE [@ EXCEPT !.pc = "done", !.code = 404]]
    /\ UNCHANGED <<requests, users, now, nextId, last, probe, topdesk_url, outbound, commits>>

\* A write that saves the document read at line 549 with the new fields,
\* whether or not the store still holds it.
ConcWriteSave(p) ==
    /\ calls[p].pc = "found"
    /\ IF ~SerialCheck(Val(calls[p].request), Val(calls[p].upd)).ok
       THEN /\ calls' = [calls EXCEPT ![p].pc = "done", ![p].code = 400]
            /\ UNCHANGED <<requests, now, commits>>
       ELSE /\ requests' =
                  Insert(ConcRid, ApplySet(Val(calls[p].request),
                                           UpdateFields(Val(calls[p].upd), now)))
            /\ commits' = Append(commits, p)
            /\ now' = now + 1
            /\ calls' = [calls EXCEPT ![p].pc = "written"]
    /\ UNCHANGED <<users, nextId, last, probe, topdesk_url, outbound>>

\* Lines 553-582: the serial check against the document read at line 549,
\* then update_one with the $set (it matches nothing when the document is
\* gone).
ConcWrite(p) ==
    /\ calls[p].pc = "found"
    /\ IF ~SerialCheck(Val(calls[p].request), Val(calls[p].upd)).ok
       THEN /\ calls' = [calls EXCEPT ![p].pc = "done", ![p].code = 400]
            /\ UNCHANGED <<requests, now, commits>>
       ELSE /\ requests' =
                  IF ConcRid \in DOMAIN requests
                  THEN [requests EXCEPT ![ConcRid] =
                           ApplySet(@, UpdateFields(Val(calls[p].upd), now))]
                  ELSE requests
            /\ commits' = Append(commits, p)
            /\ now' = now + 1
            /\ calls' = [calls EXCEPT ![p].pc = "written"]
    /\ UNCHANGED <<users, nextId, last, probe, topdesk_url, outbound>>

\* Lines 584-609: for "prepare", the submitter and the document are read
\* again, the PDF is rendered and written to a file, and a second update_one
\* stores the marker; whatever is raised is swallowed. The answer is 200.
ConcPdf(p) ==
    /\ calls[p].pc = "written"
    /\ \E fsOk \in BOOLEAN :
          LET outcome ==
                 IF ConcRid \in DOMAIN requests
                 THEN PdfOutcome(Val(calls[p].upd),
                                 [requests[ConcRid] EXCEPT
                                     !.user_id = Val(calls[p].request).user_id],
                                 fsOk)
                 ELSE IF Val(calls[p].upd).status = "prepare" THEN "raised"
                 ELSE "skipped"
          IN  /\ requests' =
                    IF outcome = "stored"
                    THEN [requests EXCEPT ![ConcRid] =
                             ApplyPdfMarker(@, PdfPath(ConcRid, now))]
                    ELSE requests
              /\ commits' = IF outcome = "stored" THEN Append(commits, p) ELSE commits
    /\ calls' = [calls EXCEPT ![p].pc = "done", ![p].code = 200]
    /\ UNCHANGED <<users, now, nextId, last, probe, topdesk_url, outbound>>

\* An admin's DELETE /api/requests/{ConcRid} reaches process p: require_admin
\* has passed.
ConcReceiveDelete(p) ==
    /\ calls[p].pc = "idle"
    /\ calls' = [calls EXCEPT ![p] =
                    [op |-> "delete", pc |-> "received_delete", upd |-> None,
                     request |-> None, code |-> 0]]
    /\ UNCHANGED <<requests, users, now, nextId, last, probe, topdesk_url, outbound, commits>>

\* Line 614: request = find_one({"_id": request_id}); 404 when it is None.
ConcDeleteFind(p) ==
    /\ calls[p].pc = "received_delete"
    /\ calls' = [calls EXCEPT ![p] =
                    IF ConcRid \in DOMAIN requests
                    THEN [@ EXCEPT !.pc = "found_delete",
                                   !.request = Some(requests[ConcRid])]
                    ELSE [@ EXCEPT !.pc = "done", !.code = 404]]
    /\ UNCHANGED <<requests, users, now, nextId, last, probe, topdesk_url, outbound, commits>>

\* Lines 619-624: delete_one, then 200 when it removed one document and 500
\* when it removed none.
ConcDeleteOne(p) ==
    /\ calls[p].pc = "found_delete"
    /\ requests' = Remove(ConcRid)
    /\ commits' = Append(commits, p)
    /\ calls' = [calls EXCEPT ![p].pc = "done",
                              ![p].code = IF DeletedCount(ConcRid) = 1 THEN 200 ELSE 500]
    /\ UNCHANGED <<users, now, nextId, last, probe, topdesk_url, outbound>>

NextConc ==
    \/ \E p \in Procs, upd \in ConcUpdates : ConcReceive(p, upd)
    \/ \E p \in Procs : ConcFind(p)
    \/ \E p \in Procs : ConcWrite(p)
    \/ \E p \in Procs : ConcPdf(p)
    \/ \E p \in Procs : ConcReceiveDelete(p)
    \/ \E p \in Procs : ConcDeleteFind(p)
    \/ \E p \in Procs : ConcDeleteOne(p)

SpecConc == InitConc /\ [][NextConc]_vars

----------------------------------------------------------------------------
(* Vocabulary of the properties *)

\* The ids create_request has issued so far.
IssuedIds == 1..(nextId - 1)

\* The documented tag format: "H", then exactly five ASCII digits, nothing else.
StrictTag(t) ==
    /\ Len(t) = 6
    /\ t[1] = "H"
    /\ \A i \in 2..6 : t[i] \in AsciiDigits

\* The body upd gives device d a serial with a non-whitespace character.
HasSerial(upd, d) ==
    /\ IsSome(upd.device_serial_numbers)
    /\ \E i \in 1..Len(Val(upd.device_serial_numbers)) :
          /\ Val(upd.device_serial_numbers)[i][1] = d
          /\ \E j \in 1..Len(Val(upd.device_serial_numbers)[i][2]) :
                Val(upd.device_serial_numbers)[i][2][j] \notin Whitespace

\* Every requested ipad/macbook of doc has a serial in upd.
AllSerialsGiven(doc, upd) ==
    \A i \in 1..Len(doc.devices) :
        doc.devices[i] \in {"ipad", "macbook"} => HasSerial(upd, doc.devices[i])

\* The caller of the call in flight is an admin or the submitter of doc.
AdminOrOwner(call, doc) ==
    call.caller.role = "admin" \/ call.caller.user_id = doc.user_id

\* An admin's update call has just been answered (last was Idle).
AdminUpdateStep ==
    last = Idle /\ last'.op = "update" /\ last'.caller.role = "admin"

----------------------------------------------------------------------------
(* Properties *)

\* C1: an admin update of a request with an ipad or macbook to "approuve" or
\* "prepare" (tags valid) is rejected with 400 and persists nothing unless
\* every requested ipad/macbook has a non-blank serial in the update, also
\* when the update has no device_serial_numbers or an empty one; with a
\* non-blank serial for each it succeeds.
C1_SerialsRequired ==
    [][(/\ AdminUpdateStep
        /\ last'.rid \in DOMAIN requests
        /\ \E i \in 1..Len(requests[last'.rid].devices) :
              requests[last'.rid].devices[i] \in {"ipad", "macbook"}
        /\ Val(last'.in).status \in {"approuve", "prepare"}
        /\ last'.code # 422)
       => IF AllSerialsGiven(requests[last'.rid], Val(last'.in))
          THEN last'.code = 200
          ELSE last'.code = 400 /\ requests' = requests]_vars

\* C2: the validator accepts a tag string iff it is empty or "H" followed by
\* exactly five ASCII digits and nothing else.
C2_TagAcceptedIffFormat ==
    last.op = "validate" =>
        (last.accepted <=> (last.tag = <<>> \/ StrictTag(last.tag)))

\* C3: an admin update with at least one non-empty tag that is not "H" plus
\* five digits is answered 422 and the error names a device whose tag is
\* malformed, whatever the other fields and the other tags.
C3_MalformedTagRejected ==
    (/\ last.op = "update"
     /\ last.caller.role = "admin"
     /\ IsSome(Val(last.in).device_asset_tags)
     /\ \E i \in 1..Len(Val(Val(last.in).device_asset_tags)) :
           /\ Val(Val(last.in).device_asset_tags)[i][2] # <<>>
           /\ ~StrictTag(Val(Val(last.in).device_asset_tags)[i][2]))
    => /\ last.code = 422
       /\ \E i \in 1..Len(Val(Val(last.in).device_asset_tags)) :
             /\ Val(Val(last.in).device_asset_tags)[i][1] = last.device
             /\ Val(Val(last.in).device_asset_tags)[i][2] # <<>>
             /\ ~StrictTag(Val(Val(last.in).device_asset_tags)[i][2])

\* C4: a create by a caller whose user record exists succeeds; the id it
\* returns was the id of no request before the call, and the record stored
\* under it has status "en_attente" and the caller's user_id.
C4_CreateFreshPending ==
    [][(last = Idle /\ last'.op = "create" /\ last'.caller.user_id \in DOMAIN users)
       => /\ last'.code = 200
          /\ IsSome(last'.request_id)
          /\ Val(last'.request_id) \notin DOMAIN requests
          /\ Val(last'.request_id) \notin IssuedIds
          /\ Val(last'.request_id) \in DOMAIN requests'
          /\ requests'[Val(last'.request_id)].status = "en_attente"
          /\ requests'[Val(last'.request_id)].user_id = last'.caller.user_id
          /\ \A r \in DOMAIN requests : requests'[r] = requests[r]]_vars

\* A create was answered while another request was already stored.
C4_Witness ==
    /\ last.op = "create"
    /\ last.code = 200
    /\ Val(last.request_id) \in DOMAIN requests
    /\ Cardinality(DOMAIN requests) >= 2

\* C5: an admin update to "prepare" of a stored request that passes the tag
\* and serial validation answers 200 and leaves the stored status "prepare",
\* whether the renderer raised, the submitter was missing or the PDF was
\* stored.
C5_PrepareSurvivesRendering ==
    (/\ last.op = "update"
     /\ last.caller.role = "admin"
     /\ last.rid \in DOMAIN requests
     /\ Val(last.in).status = "prepare"
     /\ ValidateAssetTags(Val(last.in).device_asset_tags).ok
     /\ SerialCheck(requests[last.rid], Val(last.in)).ok)
    => /\ last.code = 200
       /\ last.pdf \in {"raised", "no_user", "stored"}
       /\ requests[last.rid].status = "prepare"

\* An update to "prepare" was answered 200 although the renderer raised.
C5_Witness ==
    /\ last.op = "update"
    /\ last.code = 200
    /\ last.pdf = "raised"
    /\ requests[last.rid].status = "prepare"

\* C6: after an admin update to "prepare" with serials and tags answers 200,
\* the stored request has official_pdf_generated = true and an
\* official_pdf_path.
C6_PreparedHasPdfMarker ==
    (/\ last.op = "update"
     /\ last.code = 200
     /\ Val(last.in).status = "prepare"
     /\ TruthyDict(Val(last.in).device_serial_numbers)
     /\ AllSerialsGiven(requests[last.rid], Val(last.in))
     /\ TruthyDict(Val(last.in).device_asset_tags)
     /\ \A i \in 1..Len(Val(Val(last.in).device_asset_tags)) :
           \/ Val(Val(last.in).device_asset_tags)[i][2] = <<>>
           \/ StrictTag(Val(Val(last.in).device_asset_tags)[i][2]))
    => /\ requests[last.rid].official_pdf_generated = Some(TRUE)
       /\ requests[last.rid].official_pdf_path # None

\* C7: a download by an admin or by the submitter of a request whose status is
\* "prepare" answers 200 with a document.
C7_DownloadAfterPrepare ==
    (/\ last.op = "download"
     /\ last.rid \in DOMAIN requests
     /\ requests[last.rid].status = "prepare"
     /\ AdminOrOwner(last, requests[last.rid]))
    => last.code = 200 /\ last.body # None

\* C8: a get or a download of a stored request answers 200 iff the caller is
\* an admin or the submitter; every other caller gets 403 and no data.
C8_ViewIffAdminOrOwner ==
    (last.op \in {"get", "download"} /\ last.rid \in DOMAIN requests)
    => IF AdminOrOwner(last, requests[last.rid])
       THEN last.code = 200 /\ last.body # None
       ELSE last.code = 403 /\ last.body = None

\* C9: list gives an admin every stored request, each with the user_info of
\* its submitter as the users collection holds it; it gives any other caller
\* exactly the stored requests whose user_id is the caller's.
C9_ListScope ==
    last.op = "list" =>
        /\ last.code = 200
        /\ \A b \in last.body : b.id \in DOMAIN requests /\ b.doc = requests[b.id]
        /\ IF last.caller.role = "admin"
           THEN /\ {b.id : b \in last.body} = DOMAIN requests
                /\ \A b \in last.body :
                      /\ IsSome(b.user_info)
                      /\ Val(b.user_info).email = users[b.doc.user_id].email
                      /\ Val(b.user_info).role = users[b.doc.user_id].role
           ELSE {b.id : b \in last.body} =
                   {r \in DOMAIN requests : requests[r].user_id = last.caller.user_id}

\* A non-admin listed its own request while another subject's was stored.
C9_Witness ==
    /\ last.op = "list"
    /\ last.caller.role = "user"
    /\ last.body # {}
    /\ \E r \in DOMAIN requests : requests[r].user_id # last.caller.user_id

\* C10: a delete by a non-admin answers 403 for any id and removes nothing;
\* a delete by an admin of a stored id answers 200 and removes it, of any
\* other id answers 404; a removed id never comes back, and a get of an id
\* that is not stored answers 404.
C10_DeleteContract ==
    [][/\ (last = Idle /\ last'.op = "delete")
          => IF last'.caller.role # "admin"
             THEN last'.code = 403 /\ requests' = requests
             ELSE IF last'.rid \in DOMAIN requests
             THEN /\ last'.code = 200
                  /\ DOMAIN requests' = DOMAIN requests \ {last'.rid}
                  /\ \A r \in DOMAIN requests' : requests'[r] = requests[r]
             ELSE last'.code = 404 /\ requests' = requests
       /\ \A r \in IssuedIds : r \notin DOMAIN requests => r \notin DOMAIN requests'
       /\ (last = Idle /\ last'.op = "get" /\ last'.rid \notin DOMAIN requests)
          => last'.code = 404]_vars

\* A get of an id that an admin deleted was answered 404.
C10_Witness ==
    /\ last.op = "get"
    /\ last.code = 404
    /\ last.rid \in IssuedIds

\* C11: a stored request's status, serial numbers, asset tags and admin notes
\* change only in the step of an admin's update of that request, and a stored
\* request disappears only in the step of an admin's delete of it; the step of
\* any call by a caller who is not an admin leaves every stored request as it
\* was.
C11_OnlyAdminMutates ==
    [][\A r \in DOMAIN requests :
          /\ r \notin DOMAIN requests'
                => /\ last = Idle
                   /\ last'.op = "delete"
                   /\ last'.caller.role = "admin"
                   /\ last'.rid = r
          /\ (/\ r \in DOMAIN requests'
              /\ \/ requests'[r].status # requests[r].status
                 \/ requests'[r].device_serial_numbers # requests[r].device_serial_numbers
                 \/ requests'[r].device_asset_tags # requests[r].device_asset_tags
                 \/ requests'[r].admin_notes # requests[r].admin_notes)
                => /\ last = Idle
                   /\ last'.op = "update"
                   /\ last'.caller.role = "admin"
                   /\ last'.rid = r
          /\ (last = Idle /\ last'.caller.role # "admin")
                => r \in DOMAIN requests' /\ requests'[r] = requests[r]]_vars

\* The submitter of a stored request, not an admin, called update on it.
C11_Witness ==
    /\ last.op = "update"
    /\ last.code = 403
    /\ last.rid \in DOMAIN requests
    /\ requests[last.rid].user_id = last.caller.user_id

\* The fields of a request document that RequestUpdate does not carry.
FrameFields ==
    {"devices", "beneficiaire", "user_id", "application_requirements",
     "lieu_reception", "duree_fin_disposition", "phone", "address", "created_at"}

\* C12 (as stated): a successful update sets status to the supplied value and
\* refreshes updated_at, writes each of device_serial_numbers,
\* device_asset_tags and admin_notes that the body carries (an empty one
\* included), keeps the stored value of each that the body omits, and never
\* modifies devices, beneficiaire, user_id, application_requirements, the
\* logistics and contact fields or created_at.
C12_SuppliedFieldsWritten ==
    [][(AdminUpdateStep /\ last'.code = 200)
       => LET upd == Val(last'.in)
              old == requests[last'.rid]
              new == requests'[last'.rid]
          IN  /\ new.status = upd.status
              /\ new.updated_at = now
              /\ new.updated_at > old.updated_at
              /\ new.device_serial_numbers =
                    IF IsSome(upd.device_serial_numbers)
                    THEN upd.device_serial_numbers ELSE old.device_serial_numbers
              /\ new.device_asset_tags =
                    IF IsSome(upd.device_asset_tags)
                    THEN upd.device_asset_tags ELSE old.device_asset_tags
              /\ new.admin_notes =
                    IF IsSome(upd.admin_notes) THEN upd.admin_notes ELSE old.admin_notes
              /\ \A f \in FrameFields : new[f] = old[f]]_vars

\* C12 (amended): a successful update sets status to the supplied value and
\* refreshes updated_at, writes each of device_serial_numbers,
\* device_asset_tags and admin_notes that the body carries with a non-empty
\* value, keeps the stored value of each that the body omits or carries
\* empty, never modifies devices, beneficiaire, user_id,
\* application_requirements, the logistics and contact fields or created_at,
\* and leaves every other request as it was.
C12_PartialUpdate ==
    [][(AdminUpdateStep /\ last'.code = 200)
       => LET upd == Val(last'.in)
              old == requests[last'.rid]
              new == requests'[last'.rid]
          IN  /\ new.status = upd.status
              /\ new.updated_at = now
              /\ new.updated_at > old.updated_at
              /\ new.device_serial_numbers =
                    IF TruthyDict(upd.device_serial_numbers)
                    THEN upd.device_serial_numbers ELSE old.device_serial_numbers
              /\ new.device_asset_tags =
                    IF TruthyDict(upd.device_asset_tags)
                    THEN upd.device_asset_tags ELSE old.device_asset_tags
              /\ new.admin_notes =
                    IF TruthyStr(upd.admin_notes) THEN upd.admin_notes ELSE old.admin_notes
              /\ \A f \in FrameFields : new[f] = old[f]
              /\ \A r \in DOMAIN requests \ {last'.rid} : requests'[r] = requests[r]]_vars

\* A second update that omitted serials, tags and notes was answered 200 on a
\* request that holds all three from an earlier update.
C12_Witness ==
    /\ last.op = "update"
    /\ last.code = 200
    /\ Val(last.in).device_serial_numbers = None
    /\ Val(last.in).device_asset_tags = None
    /\ Val(last.in).admin_notes = None
    /\ requests[last.rid].device_serial_numbers # None
    /\ requests[last.rid].device_asset_tags # None
    /\ requests[last.rid].admin_notes # None
    /\ requests[last.rid].updated_at > requests[last.rid].created_at + 1

\* C13: a create by a caller whose user record exists answers 200 with the id
\* of the request it has stored, whatever the notification does (no endpoint,
\* a 2xx or another response, a transport error, a timeout); the stored
\* request is the one the body described and every other request is left as
\* it was.
C13_CreateSurvivesDispatch ==
    [][(last = Idle /\ last'.op = "create" /\ last'.caller.user_id \in DOMAIN users)
       => /\ last'.dispatch \in PostOutcomes \cup {"none"}
          /\ last'.code = 200
          /\ IsSome(last'.request_id)
          /\ Val(last'.request_id) \in DOMAIN requests' \ DOMAIN requests
          /\ requests'[Val(last'.request_id)].devices = last'.devices
          /\ requests'[Val(last'.request_id)].user_id = last'.caller.user_id
          /\ requests'[Val(last'.request_id)].created_at = now
          /\ \A r \in DOMAIN requests : requests'[r] = requests[r]]_vars

\* A create was answered 200 although the post to the endpoint timed out.
C13_Witness ==
    /\ last.op = "create"
    /\ last.dispatch = "timeout"
    /\ last.code = 200
    /\ Val(last.request_id) \in DOMAIN requests

\* C14: a step makes at most one call to the endpoint; only the step of a
\* successful create makes one (also when the post fails: no second attempt),
\* and no step makes one when no endpoint is configured.
C14_AtMostOnePost ==
    [][/\ outbound' \in {outbound, outbound + 1}
       /\ outbound' # outbound
             => last = Idle /\ last'.op = "create" /\ last'.code = 200
       /\ (last = Idle /\ last'.op = "create" /\ last'.code = 200)
             => outbound' = outbound + (IF topdesk_url = "" THEN 0 ELSE 1)
       /\ topdesk_url = "" => outbound' = 0]_vars

\* A second create whose post met a transport error: two calls in all.
C14_Witness ==
    /\ last.op = "create"
    /\ last.dispatch = "transport_error"
    /\ Cardinality(DOMAIN requests) = 2
    /\ outbound = 2

\* The device kinds a request asks for.
RequestedDevices(doc) == {doc.devices[i] : i \in 1..Len(doc.devices)}

\* C15: in every reachable state the keys of every stored request's
\* device_serial_numbers and of its device_asset_tags are device kinds the
\* request asks for.
C15_MapKeysRequested ==
    \A r \in DOMAIN requests :
        /\ IsSome(requests[r].device_serial_numbers)
              => Keys(Val(requests[r].device_serial_numbers))
                    \subseteq RequestedDevices(requests[r])
        /\ IsSome(requests[r].device_asset_tags)
              => Keys(Val(requests[r].device_asset_tags))
                    \subseteq RequestedDevices(requests[r])

\* C16: the step of a get, a list or a download (the rendering it does
\* included) leaves every stored request and user unchanged, and so does
\* reading the response; the same get made again right after a get returns
\* the same status and the same field values.
C16_ReadsDoNotMutate ==
    [][/\ (last = Idle /\ last'.op \in {"get", "list", "download"})
             => requests' = requests /\ users' = users
       /\ (last # Idle /\ last' = Idle)
             => requests' = requests /\ users' = users
       /\ (last = Idle /\ last'.op = "get")
             => \A c \in Callers, r \in RequestIds :
                   (c = last'.caller /\ r = last'.rid)
                      => /\ last'.code = GetCode(c, r)'
                         /\ last'.body = GetBody(c, r)']_vars

\* A get returned a request that an update had changed.
C16_Witness ==
    /\ last.op = "get"
    /\ last.code = 200
    /\ Val(last.body).doc.status = "approuve"
    /\ Val(last.body).doc.device_serial_numbers # None

\* Both concurrent updates have been answered 200.
BothUpdated ==
    \A p \in Procs :
        calls[p].op = "update" /\ calls[p].pc = "done" /\ calls[p].code = 200

\* The process whose write reached the store last (a marker write counts).
LastCommitter == commits[Len(commits)]

C18_AnyStatusAccepted ==
    [][(AdminUpdateStep /\ last'.rid \in DOMAIN requests /\ last'.code # 422)
       => /\ last'.code \in {200, 400}
          /\ last'.code = 200
                => requests'[last'.rid].status = Val(last'.in).status
          /\ last'.code = 400
                => /\ Val(last'.in).status \in {"approuve", "prepare"}
                   /\ ~AllSerialsGiven(requests[last'.rid], Val(last'.in))
          /\ Val(last'.in).status \notin {"approuve", "prepare"}
                => last'.code = 200]_vars

\* The second update of a request (the first one stored notes) set
\* "en_attente" again, or moved the request back to it, with a serial map that
\* has no serial for the ipad.
C18_Witness ==
    /\ last.op = "update"
    /\ last.code = 200
    /\ Val(last.in).status = "en_attente"
    /\ Val(last.in).device_serial_numbers = SerialsIpadEmpty
    /\ requests[last.rid].status = "en_attente"
    /\ requests[last.rid].updated_at = 2
    /\ requests[last.rid].admin_notes # None
    /\ Val(last.in).admin_notes = None

\* C19: an update that is not answered 200 (403 for a caller who is not an
\* admin, 422 for a malformed tag, 404 for an unknown id, 400 for a missing
\* serial) leaves every stored request exactly as it was, status and
\* updated_at included.
C19_RejectedUpdateNoWrite ==
    [][(last = Idle /\ last'.op = "update" /\ last'.code # 200)
       => /\ last'.code \in {403, 422, 404, 400}
          /\ requests' = requests
          /\ users' = users]_vars

\* An update of a stored request was answered 400 and the request still has
\* the status and the timestamp create gave it.
C19_Witness ==
    /\ last.op = "update"
    /\ last.code = 400
    /\ last.device = "ipad"
    /\ requests[last.rid].status = "en_attente"
    /\ requests[last.rid].updated_at = requests[last.rid].created_at
    /\ requests[last.rid].device_serial_numbers = None

\* C20: an admin update to "approuve" or "prepare" of a stored request, tags
\* valid, whose body has a non-blank serial for every requested ipad and
\* macbook is answered 200 whatever the body holds for apple_pencil or for
\* another kind (no entry, an empty or a whitespace-only one); a 400 names an
\* ipad or a macbook that has no serial in the body.
C20_AccessoriesExempt ==
    (/\ last.op = "update"
     /\ last.caller.role = "admin"
     /\ last.rid \in DOMAIN requests
     /\ Val(last.in).status \in {"approuve", "prepare"}
     /\ last.code # 422)
    => /\ AllSerialsGiven(requests[last.rid], Val(last.in)) => last.code = 200
       /\ last.code = 400
             => /\ last.device \in {"ipad", "macbook"}
                /\ ~HasSerial(Val(last.in), last.device)

\* An update to "prepare" whose apple_pencil serial is whitespace only was
\* answered 200 for a request that asks for an apple_pencil.
C20_Witness ==
    /\ last.op = "update"
    /\ last.code = 200
    /\ Val(last.in).status = "prepare"
    /\ Val(last.in).device_serial_numbers = SerialsPencilBlank
    /\ \E i \in 1..Len(requests[last.rid].devices) :
          requests[last.rid].devices[i] = "apple_pencil"

\* The cell the document shows for an optional value: the value when it was
\* supplied, else the fixed placeholder.
ShownOr(value, placeholder) == IF value = None THEN Some(placeholder) ELSE value

\* C21: a download of a stored request by an admin or its submitter returns a
\* document whose cells for lieu_reception, duree_fin_disposition and the
\* submitter's fonction, adresse_complete and telephone hold the supplied
\* value or else the fixed placeholder, and whose personne_reference cell is
\* not null, whichever of the optional fields were supplied.
C21_PlaceholdersRendered ==
    (/\ last.op = "download"
     /\ last.rid \in DOMAIN requests
     /\ AdminOrOwner(last, requests[last.rid]))
    => /\ last.code = 200
       /\ last.body # None
       /\ Val(last.body).lieu_reception =
             ShownOr(requests[last.rid].lieu_reception, "Centre Technolink")
       /\ Val(last.body).duree_fin_disposition =
             ShownOr(requests[last.rid].duree_fin_disposition, "Fin d'annee scolaire")
       /\ Val(last.body).personne_reference # None
       /\ Val(last.body).fonction = Some("Gestionnaire administratif")
       /\ Val(last.body).adresse = Some("5, rue Thomas Edison - L-1445 Strassen")
       /\ Val(last.body).telephone = Some("(+352) 247-65868")

C23_MarkerOutlivesPrepare ==
    [][/\ \A r \in DOMAIN requests :
             requests[r].official_pdf_generated = Some(TRUE)
                => /\ requests[r].official_pdf_path # None
                   /\ r \in DOMAIN requests'
                         => /\ requests'[r].official_pdf_generated = Some(TRUE)
                            /\ requests'[r].official_pdf_path =
                                  requests[r].official_pdf_path
       /\ (/\ AdminUpdateStep
           /\ last'.code = 200
           /\ requests[last'.rid].status = "prepare"
           /\ Val(last'.in).status # "prepare")
             => /\ requests'[last'.rid].status # "prepare"
                /\ requests'[last'.rid].official_pdf_generated = Some(TRUE)
                /\ requests'[last'.rid].official_pdf_path # None]_vars

\* A stored request has the marker while its status is not "prepare".
MarkerWithoutPrepare ==
    \E r \in DOMAIN requests :
        /\ requests[r].official_pdf_generated = Some(TRUE)
        /\ requests[r].status # "prepare"

\* Process p has finished a call of kind op with status code.
Finished(p, op, code) ==
    calls[p].op = op /\ calls[p].pc = "done" /\ calls[p].code = code

\* C24: once a concurrent admin delete of the request has succeeded, no
\* request with that id is stored in that state or in any later one, whatever
\* an update that read the request before the delete writes afterwards; and
\* an update that read the request and passed the serial check is answered
\* 200 although its writes matched nothing.
C24_DeleteWinsOverUpdate ==
    \A p \in Procs, q \in Procs :
        Finished(q, "delete", 200)
           => /\ ConcRid \notin DOMAIN requests
              /\ (/\ calls[p].op = "update"
                  /\ calls[p].pc = "done"
                  /\ calls[p].request # None)
                    => calls[p].code =
                          IF SerialCheck(Val(calls[p].request), Val(calls[p].upd)).ok
                          THEN 200 ELSE 400

\* Process 1 read the request, process 2 deleted it, and then process 1 made
\* its update_one for "prepare" and its PDF step, and answered 200.
C24_Witness ==
    /\ Finished(1, "update", 200)
    /\ Finished(2, "delete", 200)
    /\ calls[1].request # None
    /\ Val(calls[1].upd).status = "prepare"
    /\ commits = <<2, 1>>
    /\ ConcRid \notin DOMAIN requests

\* C25: when two concurrent admin deletes of the same request have both
\* finished, exactly one was answered 200; the other was answered 404 when its
\* find_one came after the removal and 500 when it had read the request and
\* its delete_one removed nothing.
C25_OneDeleteSucceeds ==
    \A p \in Procs : \A q \in Procs \ {p} :
        (/\ calls[p].op = "delete" /\ calls[p].pc = "done"
         /\ calls[q].op = "delete" /\ calls[q].pc = "done"
         /\ commits[1] = p)
           => /\ calls[p].code = 200
              /\ calls[q].code = IF calls[q].request = None THEN 404 ELSE 500
              /\ ConcRid \notin DOMAIN requests

\* Both deletes read the request before either removed it: process 1 removed
\* it and answered 200, process 2 answered 500.
C25_Witness ==
    /\ Finished(1, "delete", 200)
    /\ Finished(2, "delete", 500)
    /\ calls[2].request # None
    /\ commits = <<1, 2>>

\* The second delete read after the removal and answered 404.
C25_WitnessNotFound ==
    /\ Finished(1, "delete", 200)
    /\ Finished(2, "delete", 404)
    /\ calls[2].request = None
    /\ commits = <<1>>

\* C26: in the step of a successful admin update, a supplied non-empty serial
\* or tag map becomes the stored map with exactly its own keys (a key that
\* only the stored map had is gone); a supplied empty map and an empty
\* admin_notes string leave the stored value as it was; and stored serials,
\* tags or notes are never cleared by an update.
C26_ReplacedWholeNeverCleared ==
    [][(AdminUpdateStep /\ last'.code = 200)
       => LET upd == Val(last'.in)
              old == requests[last'.rid]
              new == requests'[last'.rid]
          IN  /\ TruthyDict(upd.device_serial_numbers)
                    => /\ Keys(Val(new.device_serial_numbers)) =
                             Keys(Val(upd.device_serial_numbers))
                       /\ new.device_serial_numbers = upd.device_serial_numbers
              /\ TruthyDict(upd.device_asset_tags)
                    => /\ Keys(Val(new.device_asset_tags)) =
                             Keys(Val(upd.device_asset_tags))
                       /\ new.device_asset_tags = upd.device_asset_tags
              /\ upd.device_serial_numbers = Some(<<>>)
                    => new.device_serial_numbers = old.device_serial_numbers
              /\ upd.device_asset_tags = Some(<<>>)
                    => new.device_asset_tags = old.device_asset_tags
              /\ upd.admin_notes = Some("") => new.admin_notes = old.admin_notes
              /\ TruthyDict(old.device_serial_numbers)
                    => TruthyDict(new.device_serial_numbers)
              /\ TruthyDict(old.device_asset_tags)
                    => TruthyDict(new.device_asset_tags)
              /\ TruthyStr(old.admin_notes) => TruthyStr(new.admin_notes)]_vars

\* The second update of a request supplied a serial map without an
\* apple_pencil key, a tag map with the ipad key alone and an empty note: the
\* stored maps are the supplied ones, and the note of the first update is
\* still stored.
C26_Witness ==
    /\ last.op = "update"
    /\ last.code = 200
    /\ requests[last.rid].updated_at = 2
    /\ TruthyDict(Val(last.in).device_serial_numbers)
    /\ TruthyDict(Val(last.in).device_asset_tags)
    /\ Keys(Val(Val(last.in).device_serial_numbers)) = {"ipad", "macbook"}
    /\ Keys(Val(Val(last.in).device_asset_tags)) = {"ipad"}
    /\ Val(last.in).admin_notes = Some("")
    /\ requests[last.rid].device_serial_numbers = Val(last.in).device_serial_numbers
    /\ requests[last.rid].device_asset_tags = Val(last.in).device_asset_tags
    /\ requests[last.rid].admin_notes = Some("note")

\* A second update supplied empty maps and an empty note for a request that
\* stores serials, tags and notes: they are still stored.
C26_WitnessEmpty ==
    /\ last.op = "update"
    /\ last.code = 200
    /\ Val(last.in).device_serial_numbers = Some(<<>>)
    /\ Val(last.in).device_asset_tags = Some(<<>>)
    /\ Val(last.in).admin_notes = Some("")
    /\ requests[last.rid].device_serial_numbers = SerialsComplete
    /\ requests[last.rid].device_asset_tags = TagsOfTest
    /\ requests[last.rid].admin_notes = Some("note")

====
